---- MODULE Spec2Model ----
(***************************************************************************)
(* Model of src/src/ol/interaction/Rotate.js: the pointer-driven rotation  *)
(* interaction (press / drag / release), its azimuth arithmetic, the pivot *)
(* marker and the cartodi.feature_original snapshot cache.                 *)
(*                                                                         *)
(* Numbers.  JavaScript Numbers are modelled exactly on the set            *)
(*     { (a + b*sqrt2)/d } \cup { +Infinity, -Infinity, NaN }              *)
(* which is closed under rotation by multiples of 45 degrees.  A number is *)
(* the tuple <<k, a, b, d>>: k = 0 finite (d > 0, gcd(a,b,d) = 1),         *)
(* k = 1 +Infinity, k = 2 -Infinity, k = 3 NaN.  Rounding of floating      *)
(* point is not modelled; signed zero is not modelled.                     *)
(*                                                                         *)
(* Angles in radians are counted in units of pi/4, so Math.PI is the       *)
(* number 4 and Math.atan(1) is the number 1; degrees are plain numbers.   *)
(***************************************************************************)
EXTENDS Integers, Sequences, FiniteSets, TLC

---------------------------------------------------------------------------
(* JavaScript Number arithmetic                                            *)

AbsInt(n) == IF n < 0 THEN -n ELSE n

RECURSIVE Gcd(_, _)
Gcd(m, n) == IF n = 0 THEN m ELSE Gcd(n, m % n)

NaN == <<3, 0, 0, 1>>
PosInf == <<1, 0, 0, 1>>
NegInf == <<2, 0, 0, 1>>

\* the finite number (a + b*sqrt2)/d, d # 0, in normal form
Fin(a, b, d) ==
  LET s == IF d < 0 THEN -1 ELSE 1
      g == Gcd(Gcd(AbsInt(a), AbsInt(b)), AbsInt(d))
  IN  <<0, (s * a) \div g, (s * b) \div g, (s * d) \div g>>

Num(n) == <<0, n, 0, 1>>

IsNaN(x) == x[1] = 3
IsFinite(x) == x[1] = 0

\* sign of a non-NaN number: -1, 0 or 1
Sgn(x) ==
  IF x[1] = 1 THEN 1
  ELSE IF x[1] = 2 THEN -1
  ELSE LET a == x[2]
           b == x[3]
       IN  IF a = 0 /\ b = 0 THEN 0
           ELSE IF a >= 0 /\ b >= 0 THEN 1
           ELSE IF a <= 0 /\ b <= 0 THEN -1
           ELSE IF a > 0 THEN (IF a * a > 2 * b * b THEN 1 ELSE -1)
           ELSE (IF 2 * b * b > a * a THEN 1 ELSE -1)

NumNeg(x) ==
  IF x[1] = 3 THEN NaN
  ELSE IF x[1] = 1 THEN NegInf
  ELSE IF x[1] = 2 THEN PosInf
  ELSE <<0, -x[2], -x[3], x[4]>>

NumAdd(x, y) ==
  IF IsNaN(x) \/ IsNaN(y) THEN NaN
  ELSE IF IsFinite(x) /\ IsFinite(y)
       THEN Fin(x[2] * y[4] + y[2] * x[4], x[3] * y[4] + y[3] * x[4], x[4] * y[4])
  ELSE IF IsFinite(x) THEN y
  ELSE IF IsFinite(y) THEN x
  ELSE IF x = y THEN x
  ELSE NaN

NumSub(x, y) == NumAdd(x, NumNeg(y))

NumMul(x, y) ==
  IF IsNaN(x) \/ IsNaN(y) THEN NaN
  ELSE IF IsFinite(x) /\ IsFinite(y)
       THEN Fin(x[2] * y[2] + 2 * x[3] * y[3], x[2] * y[3] + x[3] * y[2], x[4] * y[4])
  ELSE IF Sgn(x) = 0 \/ Sgn(y) = 0 THEN NaN
  ELSE IF Sgn(x) * Sgn(y) > 0 THEN PosInf
  ELSE NegInf

NumDiv(x, y) ==
  IF IsNaN(x) \/ IsNaN(y) THEN NaN
  ELSE IF IsFinite(x) /\ IsFinite(y)
       THEN IF Sgn(y) = 0
            THEN (IF Sgn(x) > 0 THEN PosInf ELSE IF Sgn(x) < 0 THEN NegInf ELSE NaN)
            ELSE \* x / y = x * d' * (a' - b' sqrt2) / (a'^2 - 2 b'^2)
                 LET n == y[2] * y[2] - 2 * y[3] * y[3]
                 IN  NumMul(x, Fin(y[4] * y[2], -(y[4] * y[3]), n))
  ELSE IF IsFinite(x) THEN Num(0)
  ELSE IF IsFinite(y)
       THEN (IF Sgn(x) * (IF Sgn(y) < 0 THEN -1 ELSE 1) > 0 THEN PosInf ELSE NegInf)
  ELSE NaN

\* x < y and x > y; every comparison with NaN is false
NumLt(x, y) ==
  /\ ~IsNaN(x)
  /\ ~IsNaN(y)
  /\ x # y
  /\ Sgn(NumSub(x, y)) < 0

NumGt(x, y) == NumLt(y, x)

MathMin(x, y) == IF IsNaN(x) \/ IsNaN(y) THEN NaN ELSE IF NumLt(y, x) THEN y ELSE x

MathMax(x, y) == IF IsNaN(x) \/ IsNaN(y) THEN NaN ELSE IF NumGt(y, x) THEN y ELSE x

\* Math.PI, in units of pi/4
MathPI == Num(4)

Sqrt2Half == <<0, 0, 1, 2>>

\* tan(pi/8) = sqrt2 - 1 and tan(3pi/8) = sqrt2 + 1
TanEighth == <<0, -1, 1, 1>>
TanThreeEighths == <<0, 1, 1, 1>>

\* Math.atan, in units of pi/4, on the arguments whose arctangent is a
\* multiple of pi/8
MathAtan(r) ==
  CASE IsNaN(r) -> NaN
    [] r = PosInf -> Num(2)
    [] r = NegInf -> Num(-2)
    [] r = Num(0) -> Num(0)
    [] r = Num(1) -> Num(1)
    [] r = Num(-1) -> Num(-1)
    [] r = TanEighth -> Fin(1, 0, 2)
    [] r = NumNeg(TanEighth) -> Fin(-1, 0, 2)
    [] r = TanThreeEighths -> Fin(3, 0, 2)
    [] r = NumNeg(TanThreeEighths) -> Fin(-3, 0, 2)

\* the arguments whose arctangent is NaN or a whole multiple of pi/4, the
\* angles MathCos and MathSin are defined on
AtanDomain(r) == IsNaN(r) \/ r \in {PosInf, NegInf, Num(0), Num(1), Num(-1)}

\* Math.cos and Math.sin of an angle that is a whole number of pi/4
MathCos(t) ==
  IF ~IsFinite(t) THEN NaN
  ELSE LET k == IF t[3] = 0 /\ t[4] = 1 THEN t[2] % 8 ELSE -1
       IN  CASE k = 0 -> Num(1)
             [] k \in {1, 7} -> Sqrt2Half
             [] k \in {2, 6} -> Num(0)
             [] k \in {3, 5} -> NumNeg(Sqrt2Half)
             [] k = 4 -> Num(-1)

MathSin(t) ==
  IF ~IsFinite(t) THEN NaN
  ELSE LET k == IF t[3] = 0 /\ t[4] = 1 THEN t[2] % 8 ELSE -1
       IN  CASE k \in {0, 4} -> Num(0)
             [] k \in {1, 3} -> Sqrt2Half
             [] k = 2 -> Num(1)
             [] k \in {5, 7} -> NumNeg(Sqrt2Half)
             [] k = 6 -> Num(-1)

---------------------------------------------------------------------------
(* Coordinates, geometries, extents (ol/geom, ol/extent, ol/source/Vector) *)

\* null / undefined for a coordinate or a geometry
Null == <<>>

\* SimpleGeometry.rotate(angle, anchor): every point turned counter-clockwise
\* by angle about anchor, as ol/geom/flat/transform.js rotate computes it
RotatePoint(p, angle, anchor) ==
  LET cos == MathCos(angle)
      sin == MathSin(angle)
      deltaX == NumSub(p[1], anchor[1])
      deltaY == NumSub(p[2], anchor[2])
  IN  << NumSub(NumAdd(anchor[1], NumMul(deltaX, cos)), NumMul(deltaY, sin)),
         NumAdd(NumAdd(anchor[2], NumMul(deltaX, sin)), NumMul(deltaY, cos)) >>

GeomRotate(g, angle, anchor) == [i \in 1..Len(g) |-> RotatePoint(g[i], angle, anchor)]

\* ol/extent createEmpty()
EmptyExtent == <<PosInf, PosInf, NegInf, NegInf>>

\* ol/extent extend(extent1, extent2)
ExtendExtent(e1, e2) ==
  <<MathMin(e1[1], e2[1]), MathMin(e1[2], e2[2]), MathMax(e1[3], e2[3]), MathMax(e1[4], e2[4])>>

RECURSIVE GeomExtentFrom(_, _, _)
GeomExtentFrom(g, i, e) ==
  IF i > Len(g) THEN e
  ELSE GeomExtentFrom(g, i + 1, ExtendExtent(e, <<g[i][1], g[i][2], g[i][1], g[i][2]>>))

\* Geometry.getExtent()
GeomExtent(g) == GeomExtentFrom(g, 1, EmptyExtent)

---------------------------------------------------------------------------
(* Features and their identifiers                                          *)

PIVOTE == "pivote_1"
Features == {"F1", "F2", PIVOTE}
NoFeature == "null"

\* Feature.getId(): a string, a number or undefined
StrId(s) == <<"string", s>>
NumId(s) == <<"number", s>>
NoId == <<"undefined", "">>
PIVOTE_1_ID == StrId("PIVOTE_1_ID")

\* the property key an identifier selects in cartodi.feature_original[id]
KeyOf(id) == IF id = NoId THEN "undefined" ELSE id[2]

\* this.features_ when the option was not given
NoCollection == <<NoFeature>>

VARIABLES
  lastCoordinate_, startCoordinate_, coordinate_, lastFeature_, features_,
  first_, geometry, featureId, pivoteAdded, feature_original,
  predioEdicionSelected, classList,
  op, ret, threw, dispatched, angulo_inicial, angulo, angulo_en_radiane,
  sessionFeatures, sessionGeometry,
  nEvents,
  azC1, azC2, azResult, azPc

sessionVars == <<lastCoordinate_, startCoordinate_, coordinate_, lastFeature_>>
worldVars == <<features_, first_, geometry, featureId, pivoteAdded>>
cacheVars == <<feature_original, predioEdicionSelected>>
\* history of the open session: the features of its rotatestart event and the
\* geometries at that press (<<>> while no session is open)
histVars == <<sessionFeatures, sessionGeometry>>
outVars == <<op, ret, threw, dispatched, angulo_inicial, angulo, angulo_en_radiane>>
azVars == <<azC1, azC2, azResult, azPc>>
vars == <<sessionVars, worldVars, cacheVars, classList, outVars, histVars, nEvents, azVars>>

---------------------------------------------------------------------------
(* Bounds of the model                                                     *)

\* events and calls delivered to the interaction, over one behaviour
MaxEvents == 6
\* largest |dx| = |dy| of the point pairs given to getAzimut on its own
MaxRadius == 2

---------------------------------------------------------------------------
(* Pure functions of Rotate.js                                             *)

\* the quadrant rule with the turn of the (-,+) quadrant left at pi
QuadrantAzimut_halfturn(dx, dy, Az2, init) ==
  IF NumGt(dx, Num(0)) /\ NumGt(dy, Num(0)) THEN Az2
  ELSE IF NumGt(dx, Num(0)) /\ NumLt(dy, Num(0)) THEN NumAdd(Az2, MathPI)
  ELSE IF NumLt(dx, Num(0)) /\ NumLt(dy, Num(0)) THEN NumAdd(Az2, MathPI)
  ELSE IF NumLt(dx, Num(0)) /\ NumGt(dy, Num(0)) THEN NumAdd(Az2, MathPI)
  ELSE init

\* lines 613-632: the quadrant rule, azimut starting from init
QuadrantAzimut(dx, dy, Az2, init) ==
  IF NumGt(dx, Num(0)) /\ NumGt(dy, Num(0)) THEN Az2
  ELSE IF NumGt(dx, Num(0)) /\ NumLt(dy, Num(0)) THEN NumAdd(Az2, MathPI)
  ELSE IF NumLt(dx, Num(0)) /\ NumLt(dy, Num(0)) THEN NumAdd(Az2, MathPI)
  ELSE IF NumLt(dx, Num(0)) /\ NumGt(dy, Num(0)) THEN NumAdd(Az2, NumMul(Num(2), MathPI))
  ELSE init

\* getAzimut with azimut left at the arctangent when no quadrant applies
getAzimut_uninitialised(coordinate1, coordinate2) ==
  LET dx == NumSub(coordinate2[1], coordinate1[1])
      dy == NumSub(coordinate2[2], coordinate1[2])
      Az2 == MathAtan(NumDiv(dx, dy))
      azimut == QuadrantAzimut(dx, dy, Az2, Az2)
  IN  NumDiv(NumMul(azimut, Num(180)), MathPI)

getAzimut(coordinate1, coordinate2) ==
  LET dx == NumSub(coordinate2[1], coordinate1[1])
      dy == NumSub(coordinate2[2], coordinate1[2])
      Az2 == MathAtan(NumDiv(dx, dy))
      azimut == QuadrantAzimut(dx, dy, Az2, Num(0))
  IN  NumDiv(NumMul(azimut, Num(180)), MathPI)

\* the angle of lines 367-368 without the multiplication by -1
RotationAngle_unnegated(inicial, actual) ==
  NumDiv(NumMul(NumSub(inicial, actual), MathPI), Num(-180))

\* lines 367-368: the angle handed to Geometry.rotate
RotationAngle(inicial, actual) ==
  LET angulo_final == NumMul(NumSub(inicial, actual), Num(-1))
  IN  NumDiv(NumMul(angulo_final, MathPI), Num(-180))

\* getCenterOfExtent without the halving of the width and the height
getCenterOfExtent_corner(Extent) ==
  LET X == NumAdd(Extent[1], NumSub(Extent[3], Extent[1]))
      Y == NumAdd(Extent[2], NumSub(Extent[4], Extent[2]))
  IN  <<X, Y>>

getCenterOfExtent(Extent) ==
  LET X == NumAdd(Extent[1], NumDiv(NumSub(Extent[3], Extent[1]), Num(2)))
      Y == NumAdd(Extent[2], NumDiv(NumSub(Extent[4], Extent[2]), Num(2)))
  IN  <<X, Y>>

\* can getAzimut(c1, c2) be evaluated exactly (its arctangent is a multiple
\* of pi/4)
AzimutExact(c1, c2) ==
  AtanDomain(NumDiv(NumSub(c2[1], c1[1]), NumSub(c2[2], c1[2])))

---------------------------------------------------------------------------
(* Helpers of the handlers                                                 *)

Range(seq) == {seq[i] : i \in 1..Len(seq)}

EmptyMap == [k \in {} |-> Null]

Put(m, k, v) == [x \in (DOMAIN m) \cup {k} |-> IF x = k THEN v ELSE m[x]]

\* const features = this.features_ || new Collection([this.lastFeature_]);
ActiveFeatures == IF features_ = NoCollection THEN <<lastFeature_>> ELSE features_

\* an identity check that recognises no identifier
IsPivoteId_never(id) == FALSE

\* id == 'PIVOTE_1_ID' (line 384) and its negation id !== 'PIVOTE_1_ID' (317)
IsPivoteId(id) == id = PIVOTE_1_ID

\* llaves.includes(id): llaves are the strings of Object.keys, and includes
\* compares with SameValueZero, so only a string identifier can be found
Includes(llaves, id) == id[1] = "string" /\ id[2] \in llaves

\* the features map.forEachFeatureAtPixel can hand to featuresAtPixel_'s
\* callback, and its possible results
OnMap(f) == f # PIVOTE \/ pivoteAdded

\* the features the pointer is put over in the events of the model
HitTargets == {"F1", PIVOTE}

featuresAtPixel_ ==
  {NoFeature} \cup
  {f \in HitTargets : OnMap(f) /\ (features_ = NoCollection \/ f \in Range(features_))}

\* the pivot marker's coordinate, Null while it has no geometry
PivoteCoordinates == IF geometry[PIVOTE] = Null THEN Null ELSE geometry[PIVOTE][1]

\* handleMoveEvent's effect on the viewport's class list
MoveClassList(cl, hit, dragging) ==
  IF hit # NoFeature
  THEN (cl \ {IF dragging THEN "ol-grab" ELSE "ol-grabbing"})
         \cup {IF dragging THEN "ol-grabbing" ELSE "ol-grab"}
  ELSE cl \ {"ol-grab", "ol-grabbing"}

\* an event whose start coordinate is the current coordinate
RotateEvent_current(type, features, coordinate, startCoordinate) ==
  [type |-> type, features |-> features, coordinate |-> coordinate,
   startCoordinate |-> coordinate]

RotateEvent(type, features, coordinate, startCoordinate) ==
  [type |-> type, features |-> features, coordinate |-> coordinate,
   startCoordinate |-> startCoordinate]

\* what a handler hands back: its name, return value, whether it threw, the
\* events it dispatched; the locals of handleDragEvent are cleared
Out(o, r, t, d) ==
  /\ nEvents' = nEvents + 1
  /\ op' = o
  /\ ret' = r
  /\ threw' = t
  /\ dispatched' = d
  /\ angulo_inicial' = Num(0)
  /\ angulo' = Num(0)
  /\ angulo_en_radiane' = Num(0)

\* the pointer positions of the press and drag events, relative to the pivot
\* (to the origin while there is no finite pivot): on it, north-east of it,
\* north-west of it
PointerOffsets == {<<0, 0>>, <<1, 1>>, <<-1, 1>>}

PointerBase ==
  IF PivoteCoordinates # Null /\ IsFinite(PivoteCoordinates[1]) /\ IsFinite(PivoteCoordinates[2])
  THEN PivoteCoordinates
  ELSE <<Num(0), Num(0)>>

PointerCoords ==
  {<<NumAdd(PointerBase[1], Num(d[1])), NumAdd(PointerBase[2], Num(d[2]))>> : d \in PointerOffsets}

\* the pointer position of the release events: east of the pivot
ReleaseCoords == {<<NumAdd(PointerBase[1], Num(1)), PointerBase[2]>>}

---------------------------------------------------------------------------
(* The handlers                                                            *)

\* a press handler that lets every event through
Rejected_never(gate) == FALSE

\* line 278: !event.originalEvent || !this.condition_(event), where gate is
\* event.originalEvent && this.condition_(event)
Rejected(gate) == ~gate

\* line 283: !this.lastCoordinate_ && this.lastFeature_, once lastFeature_ is hit
SessionOpens(hit) == lastCoordinate_ = Null /\ hit # NoFeature

\* handleDownEvent(event): hit is the result of
\* featuresAtPixel_(event.pixel, event.map)
handleDownEvent(gate, hit, coordinate) ==
  /\ UNCHANGED <<worldVars, cacheVars, azVars>>
  /\ IF Rejected(gate)
     THEN /\ UNCHANGED <<sessionVars, classList, histVars>>
          /\ Out("handleDownEvent", "false", FALSE, <<>>)
     ELSE /\ coordinate_' = coordinate
          /\ lastFeature_' = hit
          /\ IF SessionOpens(hit)
             THEN /\ startCoordinate_' = coordinate
                  /\ lastCoordinate_' = coordinate
                  /\ classList' = MoveClassList(classList, hit, TRUE)
                  /\ sessionFeatures' = (IF features_ = NoCollection THEN <<hit>> ELSE features_)
                  /\ sessionGeometry' = geometry
                  /\ Out("handleDownEvent", "true", FALSE,
                         <<RotateEvent("rotatestart",
                                       IF features_ = NoCollection THEN <<hit>> ELSE features_,
                                       coordinate, coordinate)>>)
             ELSE /\ UNCHANGED <<startCoordinate_, lastCoordinate_, classList, histVars>>
                  /\ Out("handleDownEvent", "false", FALSE, <<>>)

\* lines 315-320: the clones stored by handleUpEvent, feature by feature
RECURSIVE UpLoop(_, _, _)
UpLoop(featuresEdit, x, original) ==
  IF x > Len(featuresEdit) THEN original
  ELSE LET id == featureId[featuresEdit[x]]
       IN  UpLoop(featuresEdit, x + 1,
                  IF ~IsPivoteId(id)
                  THEN Put(original, KeyOf(id), geometry[featuresEdit[x]])
                  ELSE original)

\* handleUpEvent(event); featuresEdit[x].getId() throws a TypeError when the
\* only element of the collection is the null lastFeature_
handleUpEvent(hit, coordinate) ==
  /\ UNCHANGED <<worldVars, predioEdicionSelected, lastFeature_, azVars>>
  /\ coordinate_' = Null
  /\ IF NoFeature \in Range(ActiveFeatures)
     THEN /\ UNCHANGED <<lastCoordinate_, startCoordinate_, feature_original, classList,
                         histVars>>
          /\ Out("handleUpEvent", "undefined", TRUE, <<>>)
     ELSE /\ feature_original' = UpLoop(ActiveFeatures, 1, feature_original)
          /\ IF lastCoordinate_ # Null
             THEN /\ lastCoordinate_' = Null
                  /\ classList' = MoveClassList(classList, hit, FALSE)
                  /\ startCoordinate_' = Null
                  /\ sessionFeatures' = <<>>
                  /\ sessionGeometry' = <<>>
                  /\ Out("handleUpEvent", "true", FALSE,
                         <<RotateEvent("rotateend", ActiveFeatures, coordinate,
                                       startCoordinate_)>>)
             ELSE /\ UNCHANGED <<lastCoordinate_, startCoordinate_, classList, histVars>>
                  /\ Out("handleUpEvent", "false", FALSE, <<>>)

\* lines 389-395: the geometry a feature is rotated from, and the cache after
\* the lookup
Restored(llaves, id, live, original) ==
  IF Includes(llaves, id) THEN original[KeyOf(id)] ELSE live

Seeded(llaves, id, live, original) ==
  IF Includes(llaves, id) THEN original ELSE Put(original, KeyOf(id), live)

\* lines 382-407: the loop of handleDragEvent over featuresEdit; st holds the
\* geometries, cartodi.feature_original and cartodi.predioEdicionSelected
RECURSIVE DragLoop(_, _, _, _, _, _)
DragLoop(featuresEdit, x, llaves, radiane, centroide, st) ==
  IF x > Len(featuresEdit) THEN st
  ELSE LET f == featuresEdit[x]
           id == featureId[f]
           geometria == Restored(llaves, id, st.geometry[f], st.original)
       IN  IF IsPivoteId(id)
           THEN DragLoop(featuresEdit, x + 1, llaves, radiane, centroide, st)
           ELSE DragLoop(featuresEdit, x + 1, llaves, radiane, centroide,
                  [geometry |-> [st.geometry EXCEPT ![f] = GeomRotate(geometria, radiane, centroide)],
                   original |-> Seeded(llaves, id, st.geometry[f], st.original),
                   selected |-> Put(st.selected, KeyOf(id), f)])

\* a drag handler that does not look at the session
DragGuard_always == TRUE

\* line 349: if (this.lastCoordinate_)
DragGuard == lastCoordinate_ # Null

\* handleDragEvent(event); pivote_1.getGeometry().getCoordinates() throws while
\* the pivot marker has no geometry, featuresEdit[x].getId() throws on the
\* null lastFeature_
handleDragEvent(newCoordinate) ==
  /\ UNCHANGED <<features_, first_, featureId, pivoteAdded, startCoordinate_,
                 coordinate_, lastFeature_, classList, histVars, azVars>>
  /\ IF ~DragGuard
     THEN /\ UNCHANGED <<lastCoordinate_, geometry, cacheVars>>
          /\ Out("handleDragEvent", "undefined", FALSE, <<>>)
     ELSE IF PivoteCoordinates = Null \/ NoFeature \in Range(ActiveFeatures)
          THEN /\ UNCHANGED <<lastCoordinate_, geometry, cacheVars>>
               /\ Out("handleDragEvent", "undefined", TRUE, <<>>)
          ELSE LET centroide == PivoteCoordinates
                   inicial == getAzimut(centroide, coordinate_)
                   actual == getAzimut(centroide, newCoordinate)
                   radiane == RotationAngle(inicial, actual)
                   st == DragLoop(ActiveFeatures, 1, DOMAIN feature_original, radiane,
                                  centroide,
                                  [geometry |-> geometry, original |-> feature_original,
                                   selected |-> predioEdicionSelected])
               IN  /\ geometry' = st.geometry
                   /\ feature_original' = st.original
                   /\ predioEdicionSelected' = st.selected
                   /\ lastCoordinate_' = newCoordinate
                   /\ nEvents' = nEvents + 1
                   /\ op' = "handleDragEvent"
                   /\ ret' = "undefined"
                   /\ threw' = FALSE
                   /\ dispatched' = <<RotateEvent("rotating", ActiveFeatures,
                                                  newCoordinate, startCoordinate_)>>
                   /\ angulo_inicial' = inicial
                   /\ angulo' = actual
                   /\ angulo_en_radiane' = radiane

\* handleMoveEvent(event), delivered on its own (a hover)
handleMoveEvent(hit) ==
  /\ UNCHANGED <<sessionVars, worldVars, cacheVars, histVars, azVars>>
  /\ classList' = MoveClassList(classList, hit, lastCoordinate_ # Null)
  /\ Out("handleMoveEvent", "undefined", FALSE, <<>>)

\* newsource.addFeatures(...); newsource.getExtent(): the union of the extents
\* of the features that have a geometry
RECURSIVE SourceExtent(_, _, _)
SourceExtent(featuresArray, x, e) ==
  IF x > Len(featuresArray) THEN e
  ELSE SourceExtent(featuresArray, x + 1,
         IF geometry[featuresArray[x]] = Null THEN e
         ELSE ExtendExtent(e, GeomExtent(geometry[featuresArray[x]])))

\* refreshFeaturesPivotes(); addFeatures throws a TypeError on the null
\* lastFeature_.  While a session is open the refresh is taken only when the
\* new pivot keeps the press coordinate on an axis or a diagonal (the
\* directions whose azimuth the model computes exactly).
refreshFeaturesPivotes ==
  /\ UNCHANGED <<sessionVars, features_, cacheVars, classList, histVars, azVars>>
  /\ IF NoFeature \in Range(ActiveFeatures)
     THEN /\ UNCHANGED <<first_, geometry, featureId, pivoteAdded>>
          /\ Out("refreshFeaturesPivotes", "undefined", TRUE, <<>>)
     ELSE LET extent == SourceExtent(ActiveFeatures, 1, EmptyExtent)
              centro == getCenterOfExtent(extent)
          IN  /\ lastCoordinate_ # Null => AzimutExact(centro, coordinate_)
              /\ geometry' = [geometry EXCEPT ![PIVOTE] = <<centro>>]
              /\ featureId' = [featureId EXCEPT ![PIVOTE] = PIVOTE_1_ID]
              /\ pivoteAdded' = TRUE
              /\ first_' = FALSE
              /\ Out("refreshFeaturesPivotes", "undefined", FALSE, <<>>)

\* the owner of the collection given as options.features empties it
CollectionClear ==
  /\ features_ # NoCollection
  /\ features_ # <<>>
  /\ features_' = <<>>
  /\ UNCHANGED <<sessionVars, first_, geometry, featureId, pivoteAdded, cacheVars,
                 classList, histVars, azVars>>
  /\ Out("Collection.clear", "undefined", FALSE, <<>>)

\* the owner of the collection adds the pivot marker, once it is on the map
CollectionPushPivote ==
  /\ features_ # NoCollection
  /\ pivoteAdded
  /\ PIVOTE \notin Range(features_)
  /\ features_' = Append(features_, PIVOTE)
  /\ UNCHANGED <<sessionVars, first_, geometry, featureId, pivoteAdded, cacheVars,
                 classList, histVars, azVars>>
  /\ Out("Collection.push", "undefined", FALSE, <<>>)

---------------------------------------------------------------------------
(* The interaction as a state machine                                      *)

\* F1 is the segment (-1,0)-(1,0), F2 the segment (2,0)-(2,2)
InitGeometry ==
  [f \in Features |->
     CASE f = "F1" -> << <<Num(-1), Num(0)>>, <<Num(1), Num(0)>> >>
       [] f = "F2" -> << <<Num(2), Num(0)>>, <<Num(2), Num(2)>> >>
       [] OTHER -> Null]

\* F1 comes with a string identifier, F2 with none; the pivot marker has
\* none until refreshFeaturesPivotes sets it
InitIds == [f \in Features |-> IF f = "F1" THEN StrId("a") ELSE NoId]

InitInteraction ==
  /\ lastCoordinate_ = Null
  /\ startCoordinate_ = Null
  /\ coordinate_ = Null
  /\ lastFeature_ = NoFeature
  /\ features_ \in {NoCollection, <<"F1", "F2">>}
  /\ first_ = TRUE
  /\ geometry = InitGeometry
  /\ featureId = InitIds
  /\ pivoteAdded = FALSE
  /\ feature_original = EmptyMap
  /\ predioEdicionSelected = EmptyMap
  /\ classList = {}
  /\ op = "constructor"
  /\ ret = "undefined"
  /\ threw = FALSE
  /\ dispatched = <<>>
  /\ angulo_inicial = Num(0)
  /\ angulo = Num(0)
  /\ angulo_en_radiane = Num(0)
  /\ sessionFeatures = <<>>
  /\ sessionGeometry = <<>>
  /\ nEvents = 0

Init ==
  /\ InitInteraction
  /\ azC1 = Null
  /\ azC2 = Null
  /\ azResult = Num(0)
  /\ azPc = "unused"

\* the events and calls delivered to the interaction, at most MaxEvents of
\* them in one behaviour
Press ==
  /\ nEvents < MaxEvents
  /\ \E gate \in BOOLEAN, hit \in featuresAtPixel_, c \in PointerCoords :
       handleDownEvent(gate, hit, c)

Release ==
  /\ nEvents < MaxEvents
  /\ \E hit \in featuresAtPixel_, c \in ReleaseCoords : handleUpEvent(hit, c)

Drag ==
  /\ nEvents < MaxEvents
  /\ \E c \in PointerCoords : handleDragEvent(c)

Hover ==
  /\ nEvents < MaxEvents
  /\ \E hit \in featuresAtPixel_ : handleMoveEvent(hit)

Refresh == nEvents < MaxEvents /\ refreshFeaturesPivotes

Clear == nEvents < MaxEvents /\ CollectionClear

PushPivote == nEvents < MaxEvents /\ CollectionPushPivote

Next == Press \/ Release \/ Drag \/ Hover \/ Refresh \/ Clear \/ PushPivote

Spec == Init /\ [][Next]_vars

---------------------------------------------------------------------------
(* getAzimut on its own: a pair of points is drawn, then getAzimut is       *)
(* applied to it                                                           *)

\* the directions whose azimuth is computed exactly: none, the four axes,
\* the four diagonals, and the eight directions half way between an axis and
\* a diagonal
Directions ==
  {<<dx, dy>> : dx \in {Num(-1), Num(0), Num(1)}, dy \in {Num(-1), Num(0), Num(1)}}
    \cup {<<NumMul(Num(sx), TanEighth), Num(sy)>> : sx \in {-1, 1}, sy \in {-1, 1}}
    \cup {<<Num(sx), NumMul(Num(sy), TanEighth)>> : sx \in {-1, 1}, sy \in {-1, 1}}

\* the first points: integer, half-integer and irrational coordinates
AzimutOrigins ==
  {<<x, y>> : x \in {Num(0), Num(-1), Fin(1, 0, 2)}, y \in {Num(0), Num(1), Fin(0, 1, 1)}}

AzimutPairs ==
  {<<c1, <<NumAdd(c1[1], NumMul(Num(r), d[1])), NumAdd(c1[2], NumMul(Num(r), d[2]))>> >> :
     c1 \in AzimutOrigins, d \in Directions, r \in 1..MaxRadius}

InitAzimut ==
  /\ InitInteraction
  /\ features_ = NoCollection
  /\ \E pair \in AzimutPairs : azC1 = pair[1] /\ azC2 = pair[2]
  /\ azResult = Num(0)
  /\ azPc = "call"

CallGetAzimut ==
  /\ azPc = "call"
  /\ azResult' = getAzimut(azC1, azC2)
  /\ azPc' = "done"
  /\ UNCHANGED <<sessionVars, worldVars, cacheVars, classList, outVars, histVars, nEvents,
                 azC1, azC2>>

NextAzimut == CallGetAzimut

SpecAzimut == InitAzimut /\ [][NextAzimut]_vars

---------------------------------------------------------------------------
(* Claims                                                                  *)

\* a drag update of an open session that ran to its end
Dragged == op = "handleDragEvent" /\ dispatched # <<>>

\* the features of a collection that the loops of the handlers do not skip
Rotatable(featuresArray) ==
  {f \in Range(featuresArray) : f # NoFeature /\ ~IsPivoteId(featureId[f])}

\* C1 (session exclusivity, as claimed): a press delivered while a session is
\* open is not consumed and changes neither the press coordinate the start
\* azimuth is taken from, nor the start coordinate, nor the last pointer
\* coordinate, nor the tracked feature.
C1_PressInSessionChangesNothing ==
  [][(op' = "handleDownEvent" /\ lastCoordinate_ # Null) =>
       /\ ret' = "false"
       /\ coordinate_' = coordinate_
       /\ startCoordinate_' = startCoordinate_
       /\ lastCoordinate_' = lastCoordinate_
       /\ lastFeature_' = lastFeature_]_vars

\* C2 (no-drift idempotence, as claimed): after a drag update of a session
\* every rotated feature has the geometry it had when the session opened,
\* rotated about the pivot by the angle between the press coordinate (the
\* start-azimuth reference) and the pointer; the drag updates in between do
\* not matter.
C2_AbsoluteFromBaseline ==
  Dragged =>
     \A f \in Rotatable(ActiveFeatures) :
        geometry[f] =
          GeomRotate(sessionGeometry[f],
                     RotationAngle(getAzimut(PivoteCoordinates, coordinate_),
                                   getAzimut(PivoteCoordinates, lastCoordinate_)),
                     PivoteCoordinates)

\* C3 (commit persistence, as claimed): a release that ends a session leaves,
\* for every non-pivot feature of the session's feature set (that its owner
\* did not take out of the collection), a cache baseline equal to the
\* feature's geometry at the release; and the first drag update of a session,
\* when its rotation angle is 0, leaves every feature it touches as it was.
C3_ReleaseCommitsSession ==
  [][/\ (op' = "handleUpEvent" /\ ret' = "true") =>
          \A f \in Rotatable(sessionFeatures) :
             (features_ = NoCollection \/ f \in Range(features_)) =>
                /\ KeyOf(featureId[f]) \in DOMAIN feature_original'
                /\ feature_original'[KeyOf(featureId[f])] = geometry'[f]
     /\ (op' = "handleDragEvent" /\ dispatched' # <<>> /\ geometry = sessionGeometry
           /\ angulo_en_radiane' = Num(0)) =>
          \A f \in Rotatable(ActiveFeatures) : geometry'[f] = geometry[f]]_vars

\* C4 (release without a session, as claimed): handleUpEvent with no session
\* open returns false, dispatches nothing, throws nothing and leaves the
\* cache and every geometry as they were.
C4_ReleaseWithoutSessionIsNoOp ==
  [][(op' = "handleUpEvent" /\ lastCoordinate_ = Null) =>
       /\ ret' = "false"
       /\ ~threw'
       /\ dispatched' = <<>>
       /\ feature_original' = feature_original
       /\ geometry' = geometry]_vars

\* degrees to radians
DegToRad(deg) == NumDiv(NumMul(deg, MathPI), Num(180))

\* the features a drag update rotated, each from the geometry the cache
\* lookup gave it, by the angle radiane about the pivot
RotatedBy(radiane) ==
  \A f \in Rotatable(ActiveFeatures) :
     geometry'[f] =
       GeomRotate(Restored(DOMAIN feature_original, featureId[f], geometry[f],
                           feature_original),
                  radiane, PivoteCoordinates)

\* C5 (rotation delta sign, as claimed): a drag update rotates each feature
\* about the pivot by (currentAzimuth - startAzimuth) * pi/180.
C5_AngleAsClaimed ==
  [][(op' = "handleDragEvent" /\ dispatched' # <<>>) =>
       /\ angulo_en_radiane' = DegToRad(NumSub(angulo', angulo_inicial'))
       /\ RotatedBy(DegToRad(NumSub(angulo', angulo_inicial')))]_vars

\* C5 (rotation delta sign, amended): a drag update rotates each feature
\* about the pivot, counter-clockwise, by (startAzimuth - currentAzimuth) *
\* pi/180, the start azimuth being that of the press coordinate and the
\* current azimuth that of the pointer, both seen from the pivot.
C5_AngleOfDrag ==
  [][(op' = "handleDragEvent" /\ dispatched' # <<>>) =>
       /\ angulo_inicial' = getAzimut(PivoteCoordinates, coordinate_)
       /\ angulo' = getAzimut(PivoteCoordinates, lastCoordinate_')
       /\ angulo_en_radiane' = DegToRad(NumSub(angulo_inicial', angulo'))
       /\ RotatedBy(DegToRad(NumSub(angulo_inicial', angulo')))]_vars

\* a drag from azimuth 45 to azimuth 315 turned a feature by -270 degrees
C5_Witness ==
  /\ Dragged
  /\ angulo_inicial = Num(45)
  /\ angulo = Num(315)
  /\ angulo_en_radiane = Num(-6)
  /\ "F1" \in Rotatable(ActiveFeatures)
  /\ geometry["F1"] # sessionGeometry["F1"]

\* dx and dy of a finished getAzimut call
AzDx == NumSub(azC2[1], azC1[1])
AzDy == NumSub(azC2[2], azC1[2])

Between(x, lo, hi) == NumGt(x, Num(lo)) /\ NumLt(x, Num(hi))

\* C6 (quadrant correctness): for dx # 0 and dy # 0 getAzimut returns a value
\* of the open 90-degree sector fixed by the signs of (dx, dy), and on the
\* four diagonals 45, 135, 225, 315.
C6_QuadrantSector ==
  (azPc = "done" /\ AzDx # Num(0) /\ AzDy # Num(0)) =>
     /\ NumGt(AzDx, Num(0)) /\ NumGt(AzDy, Num(0)) => Between(azResult, 0, 90)
     /\ NumGt(AzDx, Num(0)) /\ NumLt(AzDy, Num(0)) => Between(azResult, 90, 180)
     /\ NumLt(AzDx, Num(0)) /\ NumLt(AzDy, Num(0)) => Between(azResult, 180, 270)
     /\ NumLt(AzDx, Num(0)) /\ NumGt(AzDy, Num(0)) => Between(azResult, 270, 360)
     /\ (AzDx = AzDy /\ NumGt(AzDx, Num(0))) => azResult = Num(45)
     /\ (AzDx = NumNeg(AzDy) /\ NumGt(AzDx, Num(0))) => azResult = Num(135)
     /\ (AzDx = AzDy /\ NumLt(AzDx, Num(0))) => azResult = Num(225)
     /\ (AzDx = NumNeg(AzDy) /\ NumLt(AzDx, Num(0))) => azResult = Num(315)

\* getAzimut((0,0), (-1,1)) returned 315
C6_Witness ==
  /\ azPc = "done"
  /\ azC1 = <<Num(0), Num(0)>>
  /\ azC2 = <<Num(-1), Num(1)>>
  /\ azResult = Num(315)

\* C7 (axis cases, as claimed): when exactly one of dx, dy is zero getAzimut
\* returns 0 for (0,+), 90 for (+,0), 180 for (0,-), 270 for (-,0).
C7_AxisValues ==
  azPc = "done" =>
     /\ (AzDx = Num(0) /\ NumGt(AzDy, Num(0))) => azResult = Num(0)
     /\ (NumGt(AzDx, Num(0)) /\ AzDy = Num(0)) => azResult = Num(90)
     /\ (AzDx = Num(0) /\ NumLt(AzDy, Num(0))) => azResult = Num(180)
     /\ (NumLt(AzDx, Num(0)) /\ AzDy = Num(0)) => azResult = Num(270)

\* are all the coordinates of a geometry finite numbers
FiniteGeometry(g) == \A i \in 1..Len(g) : IsFinite(g[i][1]) /\ IsFinite(g[i][2])

\* C8 (pointer exactly at the pivot): getAzimut of two equal points is 0, and
\* a drag update whose pointer is on the pivot rotates by a finite angle and
\* leaves finite coordinates in every feature it rotates.
C8_PointerOnPivot ==
  (Dragged /\ lastCoordinate_ = PivoteCoordinates) =>
     /\ getAzimut(PivoteCoordinates, lastCoordinate_) = Num(0)
     /\ angulo = Num(0)
     /\ IsFinite(angulo_en_radiane)
     /\ angulo_en_radiane = DegToRad(angulo_inicial)
     /\ \A f \in Rotatable(ActiveFeatures) : FiniteGeometry(geometry[f])

\* a drag from azimuth 45 onto the pivot turned F1 by 45 degrees
C8_Witness ==
  /\ Dragged
  /\ lastCoordinate_ = PivoteCoordinates
  /\ angulo_inicial = Num(45)
  /\ angulo_en_radiane = Num(1)
  /\ "F1" \in Rotatable(ActiveFeatures)
  /\ geometry["F1"] # sessionGeometry["F1"]

\* C9 (pivot exclusion): no drag update changes the geometry of the pivot
\* marker, and neither a drag update nor a release (nor anything else) leaves
\* a cache entry under the pivot marker's identifier, whether or not the
\* marker is in the active collection.
C9_PivoteExcluded ==
  [][/\ op' = "handleDragEvent" => geometry'[PIVOTE] = geometry[PIVOTE]
     /\ KeyOf(PIVOTE_1_ID) \notin DOMAIN feature_original'
     /\ KeyOf(PIVOTE_1_ID) \notin DOMAIN predioEdicionSelected']_vars

\* a drag update that rotated F1 while the pivot marker was in the collection
C9_Witness ==
  /\ Dragged
  /\ features_ # NoCollection
  /\ PIVOTE \in Range(features_)
  /\ featureId[PIVOTE] = PIVOTE_1_ID
  /\ angulo_en_radiane # Num(0)
  /\ geometry["F1"] # sessionGeometry["F1"]

\* C10 (press gating): a press in Idle opens a session, dispatches exactly
\* one rotatestart event and returns true if and only if the gating predicate
\* accepts the event and a feature is hit; otherwise it returns false,
\* dispatches nothing and leaves the start and the last coordinate unset.
C10_PressGating ==
  [][(op' = "handleDownEvent" /\ lastCoordinate_ = Null) =>
       \A gate \in BOOLEAN, hit \in featuresAtPixel_, c \in PointerCoords :
          handleDownEvent(gate, hit, c) =>
             IF gate /\ hit # NoFeature
             THEN /\ ret' = "true"
                  /\ Len(dispatched') = 1
                  /\ dispatched'[1].type = "rotatestart"
                  /\ lastCoordinate_' = c
                  /\ startCoordinate_' = c
             ELSE /\ ret' = "false"
                  /\ dispatched' = <<>>
                  /\ lastCoordinate_' = Null
                  /\ startCoordinate_' = Null]_vars

\* a press in Idle that opened a session
C10_Witness ==
  /\ op = "handleDownEvent"
  /\ ret = "true"
  /\ Len(dispatched) = 1
  /\ lastCoordinate_ # Null
  /\ startCoordinate_ = lastCoordinate_

\* the types of the events a step dispatched
Emitted(d) == [i \in 1..Len(d) |-> d[i].type]

\* C11 (lifecycle ordering, as claimed): the events form a word of
\* (rotatestart rotating* rotateend)*: rotating and rotateend are dispatched
\* only while a session is open, rotatestart only while none is open and it
\* opens one, rotateend closes it; every consumed press dispatches exactly one
\* rotatestart, every drag update of an open session exactly one rotating,
\* every consumed release exactly one rotateend.
C11_LifecycleWord ==
  [][/\ Len(dispatched') <= 1
     /\ Emitted(dispatched') = <<"rotatestart">> =>
          lastCoordinate_ = Null /\ lastCoordinate_' # Null
     /\ Emitted(dispatched') = <<"rotating">> =>
          lastCoordinate_ # Null /\ lastCoordinate_' # Null
     /\ Emitted(dispatched') = <<"rotateend">> =>
          lastCoordinate_ # Null /\ lastCoordinate_' = Null
     /\ dispatched' = <<>> => ((lastCoordinate_' = Null) <=> (lastCoordinate_ = Null))
     /\ (op' = "handleDownEvent" /\ ret' = "true") =>
          Emitted(dispatched') = <<"rotatestart">>
     /\ (op' = "handleDragEvent" /\ lastCoordinate_ # Null) =>
          Emitted(dispatched') = <<"rotating">>
     /\ (op' = "handleUpEvent" /\ ret' = "true") =>
          Emitted(dispatched') = <<"rotateend">>]_vars

\* C12 (cache write discipline, as claimed): cartodi.feature_original changes
\* only in a drag update of an open session and in a release that closes an
\* open session; a press, a hover, a pivot refresh, a drag update without a
\* session and a release without a session leave it as it was.
C12_CacheWriters ==
  [][feature_original' # feature_original =>
       \/ op' = "handleDragEvent" /\ lastCoordinate_ # Null
       \/ op' = "handleUpEvent" /\ lastCoordinate_ # Null /\ ret' = "true"]_vars

\* C13 (pivot computed on press, as claimed): a consumed press leaves the
\* pivot marker on the center of the bounding box of the session's features,
\* as their geometries are at the press.
C13_PivotSetByPress ==
  [][(op' = "handleDownEvent" /\ ret' = "true") =>
       geometry'[PIVOTE] =
         <<getCenterOfExtent(SourceExtent(sessionFeatures', 1, EmptyExtent))>>]_vars

\* C14 (frozen baseline, as claimed): a drag update changes no entry the
\* cache already holds, and after every drag update of a session the entry of
\* each rotated feature is the geometry the feature had when the session
\* opened, before its first rotation.
C14_BaselineFrozen ==
  [][op' = "handleDragEvent" =>
       /\ \A k \in DOMAIN feature_original :
             k \in DOMAIN feature_original' /\ feature_original'[k] = feature_original[k]
       /\ dispatched' # <<>> =>
            \A f \in Rotatable(ActiveFeatures) :
               /\ KeyOf(featureId[f]) \in DOMAIN feature_original'
               /\ feature_original'[KeyOf(featureId[f])] = sessionGeometry[f]]_vars

\* the points of the geometries of the features a refresh reads
FeaturePoints ==
  UNION {Range(geometry[f]) : f \in {g \in Range(ActiveFeatures) \ {NoFeature} : geometry[g] # Null}}

MinOf(S) == CHOOSE x \in S : \A y \in S : ~NumLt(y, x)
MaxOf(S) == CHOOSE x \in S : \A y \in S : ~NumGt(y, x)

\* lo + (hi - lo) / 2
Midpoint(lo, hi) == NumAdd(lo, NumDiv(NumSub(hi, lo), Num(2)))

\* (minX + (maxX - minX)/2, minY + (maxY - minY)/2) over FeaturePoints
BoxCenter ==
  <<Midpoint(MinOf({p[1] : p \in FeaturePoints}), MaxOf({p[1] : p \in FeaturePoints})),
    Midpoint(MinOf({p[2] : p \in FeaturePoints}), MaxOf({p[2] : p \in FeaturePoints}))>>

\* C15 (pivot refresh): on a set that holds features with geometries,
\* refreshFeaturesPivotes puts the pivot marker on the midpoint of the union
\* of their bounding extents and changes no other feature's geometry, no
\* session field and no cache entry.
C15_RefreshCenters ==
  [][(op' = "refreshFeaturesPivotes" /\ NoFeature \notin Range(ActiveFeatures)
        /\ FeaturePoints # {}) =>
       /\ ~threw'
       /\ geometry'[PIVOTE] = <<BoxCenter>>
       /\ \A f \in Features \ {PIVOTE} : geometry'[f] = geometry[f]
       /\ UNCHANGED <<sessionVars, cacheVars, features_>>]_vars

\* a refresh over F1 and F2 after F1 was rotated: the pivot moved
C15_Witness ==
  /\ op = "refreshFeaturesPivotes"
  /\ ~threw
  /\ features_ = <<"F1", "F2">>
  /\ geometry["F1"] # InitGeometry["F1"]
  /\ PivoteCoordinates # <<Fin(1, 0, 2), Num(1)>>

\* C16 (empty input to the pivot computation, as claimed): a refresh over a
\* set without any feature geometry leaves the pivot marker as it was and
\* never stores a non-finite coordinate in it.
C16_EmptyRefreshKeepsPivot ==
  [][(op' = "refreshFeaturesPivotes" /\ FeaturePoints = {}) =>
       /\ geometry'[PIVOTE] = geometry[PIVOTE]
       /\ FiniteGeometry(geometry'[PIVOTE])]_vars

\* C17 (empty active set during a drag, as claimed): a drag update of an open
\* session whose collection was emptied since the press changes no geometry
\* and no cache entry, sets the last coordinate to the event's coordinate,
\* dispatches exactly one rotating event and leaves the session open.
C17_DragOverEmptySet ==
  [][(op' = "handleDragEvent" /\ lastCoordinate_ # Null /\ features_ = <<>>) =>
       \A c \in PointerCoords :
          handleDragEvent(c) =>
             /\ geometry' = geometry
             /\ feature_original' = feature_original
             /\ lastCoordinate_' = c
             /\ Emitted(dispatched') = <<"rotating">>
             /\ dispatched'[1].coordinate = c
             /\ startCoordinate_' = startCoordinate_]_vars

\* C18 (drag update requires a session): a drag event delivered while no
\* session is open changes no geometry, no cache entry and no session field,
\* dispatches nothing and throws nothing.
C18_DragWithoutSession ==
  [][(op' = "handleDragEvent" /\ lastCoordinate_ = Null) =>
       /\ geometry' = geometry
       /\ UNCHANGED <<cacheVars, sessionVars, features_>>
       /\ dispatched' = <<>>
       /\ ~threw']_vars

\* a drag event after a session was closed, with the pivot placed and the
\* cache filled
C18_Witness ==
  /\ op = "handleDragEvent"
  /\ lastCoordinate_ = Null
  /\ dispatched = <<>>
  /\ PivoteCoordinates # Null
  /\ feature_original # EmptyMap

\* C19 (event payload): the rotatestart event carries the press coordinate as
\* its coordinate and its start coordinate; while the session stays open its
\* start coordinate does not change, whatever presses arrive; each rotating
\* event carries the drag's coordinate and each rotateend event the release
\* coordinate, both with the session's start coordinate; after rotateend the
\* start coordinate is null.
C19_EventPayload ==
  [][/\ (lastCoordinate_ # Null /\ lastCoordinate_' # Null) =>
          startCoordinate_' = startCoordinate_
     /\ Emitted(dispatched') = <<"rotatestart">> =>
          \A gate \in BOOLEAN, hit \in featuresAtPixel_, c \in PointerCoords :
             handleDownEvent(gate, hit, c) =>
                /\ dispatched'[1].coordinate = c
                /\ dispatched'[1].startCoordinate = c
                /\ startCoordinate_' = c
     /\ Emitted(dispatched') = <<"rotating">> =>
          \A c \in PointerCoords :
             handleDragEvent(c) =>
                /\ dispatched'[1].coordinate = c
                /\ dispatched'[1].startCoordinate = startCoordinate_
     /\ Emitted(dispatched') = <<"rotateend">> =>
          \A hit \in featuresAtPixel_, c \in ReleaseCoords :
             handleUpEvent(hit, c) =>
                /\ dispatched'[1].coordinate = c
                /\ dispatched'[1].startCoordinate = startCoordinate_
                /\ startCoordinate_' = Null]_vars

\* a rotating event dispatched after an unconsumed press of the session moved
\* the press coordinate away from the session's start coordinate
C19_Witness ==
  /\ Dragged
  /\ coordinate_ # startCoordinate_
  /\ dispatched[1].startCoordinate = startCoordinate_
  /\ dispatched[1].coordinate # startCoordinate_
  /\ dispatched[1].coordinate = lastCoordinate_

\* C20 (cyclical machine, as claimed): a release delivered while a session is
\* open closes it and is consumed, whatever drag updates and unconsumed
\* presses came before; only a release closes a session; and an accepted
\* press over a feature delivered in Idle is consumed and opens a session.
C20_ReleaseClosesSession ==
  [][/\ (op' = "handleUpEvent" /\ lastCoordinate_ # Null) =>
          lastCoordinate_' = Null /\ ret' = "true"
     /\ (lastCoordinate_ # Null /\ lastCoordinate_' = Null) => op' = "handleUpEvent"
     /\ (op' = "handleDownEvent" /\ lastCoordinate_ = Null) =>
          \A hit \in featuresAtPixel_ \ {NoFeature}, c \in PointerCoords :
             handleDownEvent(TRUE, hit, c) => (ret' = "true" /\ lastCoordinate_' = c)]_vars

\* the features of the active set that a drag update rotates and whose
\* getId() is undefined
WithoutId == {f \in Rotatable(ActiveFeatures) : featureId[f] = NoId}

\* C21 (features without an identifier, as claimed): in a drag update of a
\* session, once the cache holds an entry under the absent identifier the
\* lookup finds it, the update rotates the feature from that entry and
\* leaves the entry alone; so after every drag update the feature is its
\* pre-session geometry rotated by the angle of that update.
C21_AbsentIdReusesBaseline ==
  [][(op' = "handleDragEvent" /\ dispatched' # <<>>) =>
       \A f \in WithoutId :
          /\ KeyOf(NoId) \in DOMAIN feature_original =>
               /\ Includes(DOMAIN feature_original, featureId[f])
               /\ feature_original'[KeyOf(NoId)] = feature_original[KeyOf(NoId)]
               /\ geometry'[f] = GeomRotate(feature_original[KeyOf(NoId)],
                                            angulo_en_radiane', PivoteCoordinates)
          /\ geometry'[f] = GeomRotate(sessionGeometry[f], angulo_en_radiane',
                                       PivoteCoordinates)]_vars

====
